---- MODULE Spec2Model ----
(***************************************************************************)
(* KohakuRiver tunnel client: wire protocol codec (protocol.rs), the       *)
(* connection manager and the TCP/UDP connection handlers (connection.rs)  *)
(* and the session driver with its reconnect loop (tunnel.rs).             *)
(*                                                                         *)
(* Tasks of the tokio runtime are interleaved one step at a time; a step   *)
(* runs a task from one suspension point (.await) to the next.             *)
(***************************************************************************)
EXTENDS Integers, Sequences, FiniteSets, TLC

\* ------------------------------------------------------------------ bounds

\* handler tasks spawned over the whole run (all sessions)
MaxHandlers == 2
\* outer transport sessions established over the whole run
MaxSessions == 2
\* non-empty reads the read loops get from their local sockets, over all handlers
MaxReads == 1
\* DATA frames the connection manager accepts into inbound channels, over all handlers
MaxData == 4
\* capacity of a connection's inbound channel (256 in connection.rs:65)
ChanCap == 2
\* the largest value of the attempt counter of run() (u32::MAX in tunnel.rs:66)
MaxAttempt == 3

\* connection ids the runner uses
Ids == {1, 2}
\* the port every CONNECT names
Port == 9000
\* the bytes a local service sends in one read
LocalBytes == <<7>>
\* error texts of a failed local dial (io::Error::to_string())
DialErrorText == <<111>>
\* configured max_reconnect_attempts: 0 (infinite) or a positive cap
MaxReconnectChoices == 0..MaxAttempt

\* ------------------------------------------------------------------ codec

HEADER_SIZE == 8

MsgType_Connect == 1
MsgType_Connected == 2
MsgType_Data == 3
MsgType_Close == 4
MsgType_Error == 5
MsgType_Ping == 6
MsgType_Pong == 7

Proto_Tcp == 0
Proto_Udp == 1

NoHeader == [msg_type |-> 0, proto |-> 0, client_id |-> 0, port |-> 0]

\* a decoder that also takes 0x08 for a message type
MsgType_try_from_lax(value) ==
    IF value \in {1, 2, 3, 4, 5, 6, 7, 8}
    THEN [ok |-> TRUE, v |-> value, err |-> ""]
    ELSE [ok |-> FALSE, v |-> 0, err |-> "InvalidMsgType"]

\* impl TryFrom<u8> for MsgType
MsgType_try_from(value) ==
    IF value \in {1, 2, 3, 4, 5, 6, 7}
    THEN [ok |-> TRUE, v |-> value, err |-> ""]
    ELSE [ok |-> FALSE, v |-> 0, err |-> "InvalidMsgType"]

\* impl TryFrom<u8> for Proto
Proto_try_from(value) ==
    IF value \in {0, 1}
    THEN [ok |-> TRUE, v |-> value, err |-> ""]
    ELSE [ok |-> FALSE, v |-> 0, err |-> "InvalidProto"]

\* u32::from_be_bytes / u16::from_be_bytes
u32_from_be_bytes(b0, b1, b2, b3) == ((b0 * 256 + b1) * 256 + b2) * 256 + b3
u16_from_be_bytes(b0, b1) == b0 * 256 + b1

\* a little-endian put_u32
put_u32_le(v) ==
    << v % 256, (v \div 256) % 256, (v \div 65536) % 256, (v \div 16777216) % 256 >>

\* BufMut::put_u32 / put_u16 (big-endian)
put_u32(v) ==
    << (v \div 16777216) % 256, (v \div 65536) % 256, (v \div 256) % 256, v % 256 >>
put_u16(v) == << (v \div 256) % 256, v % 256 >>

\* Header::parse
Header_parse(data) ==
    IF Len(data) < HEADER_SIZE
    THEN [ok |-> FALSE, err |-> "MessageTooShort", header |-> NoHeader]
    ELSE LET mt == MsgType_try_from(data[1])
             pr == Proto_try_from(data[2])
         IN  IF ~mt.ok THEN [ok |-> FALSE, err |-> mt.err, header |-> NoHeader]
             ELSE IF ~pr.ok THEN [ok |-> FALSE, err |-> pr.err, header |-> NoHeader]
             ELSE [ok |-> TRUE, err |-> "",
                   header |-> [msg_type |-> mt.v, proto |-> pr.v,
                               client_id |-> u32_from_be_bytes(data[3], data[4], data[5], data[6]),
                               port |-> u16_from_be_bytes(data[7], data[8])]]

\* Header::write_to
Header_write_to(h) == <<h.msg_type, h.proto>> \o put_u32(h.client_id) \o put_u16(h.port)

\* build_message
build_message(msg_type, proto, client_id, port, payload) ==
    Header_write_to([msg_type |-> msg_type, proto |-> proto,
                     client_id |-> client_id, port |-> port]) \o payload

build_connected(proto, client_id) == build_message(MsgType_Connected, proto, client_id, 0, <<>>)
build_data(proto, client_id, data) == build_message(MsgType_Data, proto, client_id, 0, data)
build_close(proto, client_id) == build_message(MsgType_Close, proto, client_id, 0, <<>>)
build_error(proto, client_id, error_msg) == build_message(MsgType_Error, proto, client_id, 0, error_msg)
build_pong(client_id) == build_message(MsgType_Pong, Proto_Tcp, client_id, 0, <<>>)

\* get_payload
get_payload(data) ==
    IF Len(data) > HEADER_SIZE THEN SubSeq(data, HEADER_SIZE + 1, Len(data)) ELSE <<>>

\* ------------------------------------------------------------------ state

VARIABLES
    limits,                 \* the budgets of the run explored (never changes)
    max_reconnect_attempts, \* TunnelConfig.max_reconnect_attempts
    attempt,                \* run(): the attempt counter
    errs,                   \* history: attempts that ended in Err since the last Ok(())
    endedBy,                \* history: how the latest attempt ended
    runPc,                  \* position of the session driver task
    session,                \* number of sessions established so far (the current one)
    sessLive,               \* the current session's outer transport is alive (sink writable)
    cur,                    \* the binary frame handle_message is working on
    connections,            \* ConnectionManager.connections: set of [id, gen]
    handlers,               \* every handler task spawned so far, by spawn order (gen)
    out                     \* what the session task handed to the sink in the last step

vars == <<limits, max_reconnect_attempts, attempt, errs, endedBy, runPc, session, sessLive, cur,
          connections, handlers, out>>

Gens == 1..Len(handlers)

\* ConnectionManager.connections as a map
Keys == {e.id : e \in connections}
GenOf(id) == (CHOOSE e \in connections : e.id = id).gen

\* the mpsc::Sender of handler g lives only in its table entry
TxAlive(g) == \E e \in connections : e.gen = g
\* the mpsc::Receiver is owned by the handler until it spawns the write task,
\* then by the write task
RxAlive(g) ==
    \/ handlers[g].hPc \in {"dial", "errLock", "errSend", "connLock", "connSend"}
    \/ handlers[g].wPc \in {"recv", "write"}

\* the sink of session s accepts a frame
SinkOk(s) == s = session /\ sessLive

\* tasks holding the tokio Mutex around the sink of session s
SessionHolds(s) == s = session /\ runPc \in {"pongSend", "wsPongSend"}
HandlerHolds(g) ==
    \/ handlers[g].hPc \in {"errSend", "connSend"}
    \/ handlers[g].rPc \in {"dataSend", "closeSend"}
LockHolders(s) ==
    {g \in Gens : handlers[g].sess = s /\ HandlerHolds(g)}
        \cup (IF SessionHolds(s) THEN {0} ELSE {})
\* ws_sender.lock().await returns
LockFree(s) == LockHolders(s) = {}

\* a frame handed to whatever sink the client currently has
Sent_current(kind, data, s) == [kind |-> kind, data |-> data, sess |-> session, ok |-> sessLive]

\* one frame handed to the sink of session s, and whether the sink took it
Sent(kind, data, s) == [kind |-> kind, data |-> data, sess |-> s, ok |-> SinkOk(s)]

InSession == runPc \in {"recv", "dataSend", "pongLock", "pongSend", "wsPongLock", "wsPongSend"}

\* the state of run() on entry, before its first attempt
Start ==
    /\ attempt = 0
    /\ errs = 0
    /\ endedBy = "none"
    /\ runPc = "top"
    /\ session = 0
    /\ sessLive = FALSE
    /\ cur = <<>>
    /\ connections = {}
    /\ handlers = <<>>
    /\ out = <<>>

\* runs explored: one connection with inbound data and local reads, several
\* TCP connections without payload traffic, one connection across a reconnect;
\* protos: the protocols the runner asks for; faults: whether dials, local
\* sockets and the transport may fail or close in the run
Scenarios ==
    { [handlers |-> 1, data |-> MaxData, reads |-> MaxReads, sessions |-> 1,
       protos |-> {Proto_Tcp, Proto_Udp}, faults |-> TRUE],
      [handlers |-> MaxHandlers, data |-> 0, reads |-> 0, sessions |-> 1,
       protos |-> {Proto_Tcp}, faults |-> TRUE],
      [handlers |-> 1, data |-> 0, reads |-> MaxReads, sessions |-> MaxSessions,
       protos |-> {Proto_Tcp, Proto_Udp}, faults |-> TRUE] }

\* the outcomes of a local socket operation in this run
Outcomes == IF limits.faults THEN BOOLEAN ELSE {TRUE}

\* TunnelConfig::default(): max_reconnect_attempts = 0
Init ==
    /\ limits \in Scenarios
    /\ max_reconnect_attempts = 0
    /\ Start

\* ------------------------------------------------------------------ run()

\* run(): loop head, attempt += 1 and the max-attempts check; at the largest
\* value the addition overflows: a build with overflow checks panics, a build
\* without them wraps to 0
run_loop ==
    /\ runPc = "top"
    /\ \/ /\ attempt < MaxAttempt
          /\ attempt' = attempt + 1
          /\ runPc' = IF max_reconnect_attempts > 0 /\ attempt + 1 > max_reconnect_attempts
                      THEN "exited" ELSE "connect"
       \/ /\ attempt = MaxAttempt
          /\ \/ attempt' = attempt /\ runPc' = "panicked"
             \/ attempt' = 0 /\ runPc' = "connect"
    /\ out' = <<>>
    /\ UNCHANGED <<limits, max_reconnect_attempts, errs, endedBy, session, sessLive, cur,
                   connections, handlers>>

\* connect_and_run(): build_ws_url()? or connect_async(..)? fails; run() logs the error
connect_fail ==
    /\ runPc = "connect"
    /\ errs <= MaxAttempt
    /\ errs' = errs + 1
    /\ endedBy' = "connect"
    /\ runPc' = "sleep"
    /\ out' = <<>>
    /\ UNCHANGED <<limits, max_reconnect_attempts, attempt, session, sessLive, cur,
                   connections, handlers>>

\* connect_and_run(): the transport connects, ConnectionManager::new
connect_ok ==
    /\ runPc = "connect"
    /\ session < limits.sessions
    /\ session' = session + 1
    /\ sessLive' = TRUE
    /\ connections' = {}
    /\ runPc' = "recv"
    /\ endedBy' = "none"
    /\ out' = <<>>
    /\ UNCHANGED <<limits, max_reconnect_attempts, errs, attempt, cur, handlers>>

\* run() with an Ok(()) arm that leaves the counter as it is
run_ok_no_reset ==
    /\ runPc = "returned"
    /\ errs' = 0
    /\ runPc' = "sleep"
    /\ out' = <<>>
    /\ UNCHANGED <<limits, max_reconnect_attempts, attempt, endedBy, session, sessLive, cur,
                   connections, handlers>>

\* run(): Ok(()) => attempt = 0
run_ok ==
    /\ runPc = "returned"
    /\ attempt' = 0
    /\ errs' = 0
    /\ runPc' = "sleep"
    /\ out' = <<>>
    /\ UNCHANGED <<limits, max_reconnect_attempts, endedBy, session, sessLive, cur,
                   connections, handlers>>

\* run(): sleep(reconnect_delay) and loop
run_sleep ==
    /\ runPc = "sleep"
    /\ runPc' = "top"
    /\ out' = <<>>
    /\ UNCHANGED <<limits, max_reconnect_attempts, errs, endedBy, attempt, session, sessLive, cur,
                   connections, handlers>>

\* ------------------------------------------------------------------ ConnectionManager

NewHandler(client_id, proto, port) ==
    [id |-> client_id, proto |-> proto, port |-> port, sess |-> session,
     hPc |-> "dial", rPc |-> "none", wPc |-> "none",
     chan |-> <<>>, nIn |-> 0, item |-> <<>>, written |-> <<>>, log |-> <<>>]

\* HashMap::insert
Insert(table, client_id, gen) ==
    {e \in table : e.id # client_id} \cup {[id |-> client_id, gen |-> gen]}

\* handle_connect without the contains_key early return
handle_connect_unchecked(client_id, proto, port) ==
    /\ handlers' = Append(handlers, NewHandler(client_id, proto, port))
    /\ connections' = Insert(connections, client_id, Len(handlers) + 1)

\* ConnectionManager::handle_connect
handle_connect(client_id, proto, port) ==
    IF client_id \in Keys
    THEN UNCHANGED <<connections, handlers>>
    ELSE /\ handlers' = Append(handlers, NewHandler(client_id, proto, port))
         /\ connections' = Insert(connections, client_id, Len(handlers) + 1)

\* data_tx.send(..).await is suspended: the channel is full and its receiver alive
SendSuspended(client_id) ==
    /\ client_id \in Keys
    /\ RxAlive(GenOf(client_id))
    /\ Len(handlers[GenOf(client_id)].chan) >= ChanCap

\* handle_data that looks the receiver up among the handlers instead of the table
handle_data_by_handler(client_id, proto, data) ==
    /\ ~SendSuspended(client_id)
    /\ UNCHANGED connections
    /\ LET live == {g \in Gens : handlers[g].id = client_id /\ RxAlive(g)}
       IN  IF live # {}
           THEN LET g == CHOOSE x \in live : \A y \in live : y <= x
                IN  handlers' = [handlers EXCEPT ![g].chan = Append(@, data),
                                                 ![g].nIn = @ + 1]
           ELSE UNCHANGED handlers

\* ConnectionManager::handle_data, once data_tx.send(..).await can return
handle_data(client_id, proto, data) ==
    /\ ~SendSuspended(client_id)
    /\ UNCHANGED connections
    /\ IF client_id \in Keys /\ RxAlive(GenOf(client_id))
       THEN handlers' = [handlers EXCEPT ![GenOf(client_id)].chan = Append(@, data),
                                         ![GenOf(client_id)].nIn = @ + 1]
       ELSE UNCHANGED handlers

\* ConnectionManager::handle_close
handle_close(client_id) ==
    /\ connections' = {e \in connections : e.id # client_id}
    /\ UNCHANGED handlers

\* handle_ping that answers only for ids in the table
handle_ping_known_only(client_id) ==
    /\ out' = IF client_id \in Keys
              THEN <<Sent("Binary", build_pong(client_id), session)>>
              ELSE <<>>
    /\ UNCHANGED <<connections, handlers>>

\* ConnectionManager::handle_ping: build_pong and send_message
handle_ping(client_id) ==
    /\ out' = <<Sent("Binary", build_pong(client_id), session)>>
    /\ UNCHANGED <<connections, handlers>>

\* a shutdown that leaves the table as it is
shutdown_keep == UNCHANGED connections

\* ConnectionManager::shutdown
shutdown == connections' = {}

\* ------------------------------------------------------------------ outer transport

IsMsg(data, t) == Header_parse(data).ok /\ Header_parse(data).header.msg_type = t
HeaderOf(data) == Header_parse(data).header

\* frames that Header::parse rejects or handle_message ignores as too short
Malformed == { <<1, 0, 0>>, <<9, 0, 0, 0, 0, 1, 0, 0>>, <<1, 2, 0, 0, 0, 1, 0, 0>> }

\* the payload of the k-th DATA frame the runner sends to a connection is <<k>>
\* (payloads are opaque to the client; numbering them makes them distinct)
NextSeq(id) == IF id \in Keys THEN handlers[GenOf(id)].nIn + 1 ELSE 0

\* ids are opaque to the client: the runner takes a new id only after every
\* smaller one is in use
FreshIds == {id \in Ids : \A j \in Ids : j < id => \E g \in Gens : handlers[g].id = j}

RECURSIVE SumOver(_, _)
SumOver(f(_), n) == IF n = 0 THEN 0 ELSE f(n) + SumOver(f, n - 1)

CountIn(g) == handlers[g].nIn
\* DATA frames accepted so far
TotalIn == SumOver(CountIn, Len(handlers))

\* the binary frames the runner may send next
RunnerFrames ==
    (IF Len(handlers) < limits.handlers
     THEN {build_message(MsgType_Connect, pr, id, Port, <<>>) :
               pr \in limits.protos, id \in FreshIds}
     ELSE {})
    \cup {build_data(Proto_Tcp, id, <<NextSeq(id)>>) :
              id \in {i \in Ids : i \in Keys /\ RxAlive(GenOf(i)) => TotalIn < limits.data}}
    \cup {build_close(Proto_Tcp, id) : id \in Ids}
    \cup {build_message(MsgType_Ping, Proto_Tcp, id, 0, <<>>) : id \in Ids}
    \cup {build_connected(Proto_Tcp, 1)}
    \cup Malformed

\* the outer transport fails (connection reset, stream end): from now on the sink
\* rejects every frame and ws_receiver.next() yields the error
transport_fail ==
    /\ limits.faults
    /\ InSession
    /\ sessLive
    /\ sessLive' = FALSE
    /\ out' = <<>>
    /\ UNCHANGED <<limits, max_reconnect_attempts, errs, endedBy, attempt, runPc, session, cur,
                   connections, handlers>>

\* a read loop that ends when handle_message cannot take the frame
dispatch_skipped_fatal(data) ==
    /\ runPc = "recv"
    /\ sessLive
    /\ \/ Len(data) < HEADER_SIZE
       \/ ~Header_parse(data).ok
       \/ HeaderOf(data).msg_type \in {MsgType_Connected, MsgType_Error, MsgType_Pong}
    /\ sessLive' = FALSE
    /\ endedBy' = "error"
    /\ runPc' = "shutdown"
    /\ out' = <<>>
    /\ UNCHANGED <<limits, max_reconnect_attempts, errs, attempt, session, cur,
                   connections, handlers>>

\* Ok(Message::Binary(data)), handle_message: too short, Header::parse(data)?
\* fails, or a client-to-server type (Connected | Error | Pong)
dispatch_skipped(data) ==
    /\ runPc = "recv"
    /\ sessLive
    /\ \/ Len(data) < HEADER_SIZE
       \/ ~Header_parse(data).ok
       \/ HeaderOf(data).msg_type \in {MsgType_Connected, MsgType_Error, MsgType_Pong}
    /\ out' = <<>>
    /\ UNCHANGED <<limits, max_reconnect_attempts, errs, endedBy, attempt, runPc, session, sessLive, cur,
                   connections, handlers>>

recv_skipped == \E data \in RunnerFrames : dispatch_skipped(data)

\* Ok(Message::Binary(data)), handle_message: MsgType::Connect
dispatch_connect(data) ==
    /\ runPc = "recv"
    /\ sessLive
    /\ IsMsg(data, MsgType_Connect)
    /\ handle_connect(HeaderOf(data).client_id, HeaderOf(data).proto, HeaderOf(data).port)
    /\ out' = <<>>
    /\ UNCHANGED <<limits, max_reconnect_attempts, errs, endedBy, attempt, runPc, session, sessLive, cur>>

recv_connect == \E data \in RunnerFrames : dispatch_connect(data)

\* Ok(Message::Binary(data)), handle_message: MsgType::Data; the session task
\* stays inside handle_data while data_tx.send(..).await is suspended
dispatch_data(data) ==
    /\ runPc = "recv"
    /\ sessLive
    /\ IsMsg(data, MsgType_Data)
    /\ IF SendSuspended(HeaderOf(data).client_id)
       THEN /\ runPc' = "dataSend"
            /\ cur' = data
            /\ UNCHANGED <<connections, handlers>>
       ELSE /\ handle_data(HeaderOf(data).client_id, HeaderOf(data).proto,
                           get_payload(data))
            /\ UNCHANGED <<runPc, cur>>
    /\ out' = <<>>
    /\ UNCHANGED <<limits, max_reconnect_attempts, errs, endedBy, attempt, session, sessLive>>

recv_data == \E data \in RunnerFrames : dispatch_data(data)

\* handle_data: the suspended data_tx.send(..).await returns
data_send_resume ==
    /\ runPc = "dataSend"
    /\ handle_data(HeaderOf(cur).client_id, HeaderOf(cur).proto, get_payload(cur))
    /\ runPc' = "recv"
    /\ cur' = <<>>
    /\ out' = <<>>
    /\ UNCHANGED <<limits, max_reconnect_attempts, errs, endedBy, attempt, session, sessLive>>

\* Ok(Message::Binary(data)), handle_message: MsgType::Close
dispatch_close(data) ==
    /\ runPc = "recv"
    /\ sessLive
    /\ IsMsg(data, MsgType_Close)
    /\ handle_close(HeaderOf(data).client_id)
    /\ out' = <<>>
    /\ UNCHANGED <<limits, max_reconnect_attempts, errs, endedBy, attempt, runPc, session, sessLive, cur>>

recv_close == \E data \in RunnerFrames : dispatch_close(data)

\* Ok(Message::Binary(data)), handle_message: MsgType::Ping, handle_ping up to
\* send_message's ws_sender.lock().await
dispatch_ping(data) ==
    /\ runPc = "recv"
    /\ sessLive
    /\ IsMsg(data, MsgType_Ping)
    /\ cur' = data
    /\ runPc' = IF LockFree(session) THEN "pongSend" ELSE "pongLock"
    /\ out' = <<>>
    /\ UNCHANGED <<limits, max_reconnect_attempts, errs, endedBy, attempt, session, sessLive,
                   connections, handlers>>

recv_ping == \E data \in RunnerFrames : dispatch_ping(data)

\* send_message: the suspended ws_sender.lock().await returns
ping_lock ==
    /\ runPc = "pongLock"
    /\ LockFree(session)
    /\ runPc' = "pongSend"
    /\ out' = <<>>
    /\ UNCHANGED <<limits, max_reconnect_attempts, errs, endedBy, attempt, session, sessLive, cur,
                   connections, handlers>>

\* handle_ping: sender.send(pong).await, the guard is dropped
ping_send ==
    /\ runPc = "pongSend"
    /\ handle_ping(HeaderOf(cur).client_id)
    /\ runPc' = "recv"
    /\ cur' = <<>>
    /\ UNCHANGED <<limits, max_reconnect_attempts, errs, endedBy, attempt, session, sessLive>>

\* Ok(Message::Text(_)) | Ok(Message::Pong(_)) | Ok(Message::Frame(_))
recv_ignored ==
    /\ runPc = "recv"
    /\ sessLive
    /\ out' = <<>>
    /\ UNCHANGED <<limits, max_reconnect_attempts, errs, endedBy, attempt, runPc, session, sessLive, cur,
                   connections, handlers>>

\* Ok(Message::Ping(data)), up to ws_sender.lock().await
recv_ws_ping ==
    /\ runPc = "recv"
    /\ sessLive
    /\ runPc' = IF LockFree(session) THEN "wsPongSend" ELSE "wsPongLock"
    /\ out' = <<>>
    /\ UNCHANGED <<limits, max_reconnect_attempts, errs, endedBy, attempt, session, sessLive, cur,
                   connections, handlers>>

\* Ok(Message::Ping(data)): the suspended ws_sender.lock().await returns
ws_pong_lock ==
    /\ runPc = "wsPongLock"
    /\ LockFree(session)
    /\ runPc' = "wsPongSend"
    /\ out' = <<>>
    /\ UNCHANGED <<limits, max_reconnect_attempts, errs, endedBy, attempt, session, sessLive, cur,
                   connections, handlers>>

\* let _ = sender.send(Message::Pong(data)).await
ws_pong_send ==
    /\ runPc = "wsPongSend"
    /\ out' = <<Sent("Pong", <<>>, session)>>
    /\ runPc' = "recv"
    /\ UNCHANGED <<limits, max_reconnect_attempts, errs, endedBy, attempt, session, sessLive, cur,
                   connections, handlers>>

\* Ok(Message::Close(_)) => break (the transport was alive until the close
\* frame was read), Err(_) => break, or next() returns None
recv_end ==
    /\ runPc = "recv"
    /\ sessLive' = FALSE
    /\ endedBy' = IF sessLive THEN "close" ELSE "error"
    /\ runPc' = "shutdown"
    /\ out' = <<>>
    /\ UNCHANGED <<limits, max_reconnect_attempts, errs, attempt, session, cur,
                   connections, handlers>>

\* connect_and_run(): after the message loop, shutdown() and Ok(())
session_cleanup ==
    /\ runPc = "shutdown"
    /\ shutdown
    /\ runPc' = "returned"
    /\ out' = <<>>
    /\ UNCHANGED <<limits, max_reconnect_attempts, errs, endedBy, attempt, session, sessLive, cur, handlers>>

\* ------------------------------------------------------------------ handlers

\* a step of handler g (or of one of its two tasks): nothing else changes
HandlerStep(g, rec) ==
    /\ handlers' = [handlers EXCEPT ![g] = rec]
    /\ out' = <<>>
    /\ UNCHANGED <<limits, max_reconnect_attempts, errs, endedBy, attempt, runPc, session, sessLive, cur,
                   connections>>

\* a lock() that returns whether or not the sink is held
Locking_unguarded(g, what) == what \o "Send"

\* ws_sender.lock().await: taken at once when the lock is free, else the task waits
Locking(g, what) ==
    IF LockFree(handlers[g].sess) THEN what \o "Send" ELSE what \o "Lock"

\* the frames of one message type among the frames a handler handed to the sink
TypeCount(log, t) == Cardinality({i \in 1..Len(log) : HeaderOf(log[i].data).msg_type = t})
DataCount(log) == TypeCount(log, MsgType_Data)

CountReads(g) == DataCount(handlers[g].log)
\* non-empty local reads so far
TotalReads == SumOver(CountReads, Len(handlers))

\* a dial after which the handler starts on an empty channel
tcp_dial_fresh_channel(g) ==
    /\ handlers[g].proto = Proto_Tcp
    /\ handlers[g].hPc = "dial"
    /\ \E ok \in Outcomes :
          HandlerStep(g, [handlers[g] EXCEPT !.hPc = Locking(g, IF ok THEN "conn" ELSE "err"),
                                             !.chan = <<>>])

\* handle_tcp_connection: TcpStream::connect(addr).await
tcp_dial(g) ==
    /\ handlers[g].proto = Proto_Tcp
    /\ handlers[g].hPc = "dial"
    /\ \E ok \in Outcomes :
          HandlerStep(g, [handlers[g] EXCEPT !.hPc = Locking(g, IF ok THEN "conn" ELSE "err")])

\* handle_tcp_connection, Err(e): ws_sender.lock().await
tcp_error_lock(g) ==
    /\ handlers[g].hPc = "errLock"
    /\ LockFree(handlers[g].sess)
    /\ HandlerStep(g, [handlers[g] EXCEPT !.hPc = "errSend"])

\* the Err(e) arm returning without a message
tcp_error_silent(g) ==
    /\ handlers[g].hPc = "errSend"
    /\ HandlerStep(g, [handlers[g] EXCEPT !.hPc = "dialFailed", !.chan = <<>>])

\* handle_tcp_connection, Err(e): send build_error(..), return Err (data_rx is dropped)
tcp_error_send(g) ==
    /\ handlers[g].hPc = "errSend"
    /\ HandlerStep(g,
          [handlers[g] EXCEPT !.hPc = "dialFailed", !.chan = <<>>,
              !.log = Append(@, Sent("Binary",
                                     build_error(Proto_Tcp, handlers[g].id, DialErrorText),
                                     handlers[g].sess))])

\* handle_udp_connection: UdpSocket::bind(..).await? and socket.connect(target).await?
udp_setup(g) ==
    /\ handlers[g].proto = Proto_Udp
    /\ handlers[g].hPc = "dial"
    /\ \E ok \in Outcomes :
          HandlerStep(g,
              IF ok THEN [handlers[g] EXCEPT !.hPc = Locking(g, "conn")]
                    ELSE [handlers[g] EXCEPT !.hPc = "dialFailed", !.chan = <<>>])

\* "Send CONNECTED message": ws_sender.lock().await
connected_lock(g) ==
    /\ handlers[g].hPc = "connLock"
    /\ LockFree(handlers[g].sess)
    /\ HandlerStep(g, [handlers[g] EXCEPT !.hPc = "connSend"])

\* a CONNECTED send whose result is not looked at: both tasks are spawned anyway
connected_send_unchecked(g) ==
    /\ handlers[g].hPc = "connSend"
    /\ HandlerStep(g,
          [handlers[g] EXCEPT !.hPc = "select", !.rPc = "read", !.wPc = "recv",
              !.log = Append(@, Sent("Binary",
                                     build_connected(handlers[g].proto, handlers[g].id),
                                     handlers[g].sess))])

\* "Send CONNECTED message": send(..).await.context(..)?, then both tasks are
\* spawned and the handler waits in select!
connected_send(g) ==
    /\ handlers[g].hPc = "connSend"
    /\ HandlerStep(g,
          LET sent == Sent("Binary", build_connected(handlers[g].proto, handlers[g].id),
                           handlers[g].sess)
          IN  IF sent.ok
              THEN [handlers[g] EXCEPT !.hPc = "select", !.rPc = "read", !.wPc = "recv",
                                       !.log = Append(@, sent)]
              ELSE [handlers[g] EXCEPT !.hPc = "sendFailed", !.chan = <<>>,
                                       !.log = Append(@, sent)])

\* tokio::select! { _ = read_task => .., _ = write_task => .. }: the handler
\* returns once either task is done; the JoinHandle of the other task is
\* dropped, which detaches that task and leaves it running
HandlerReturned(g) ==
    \/ handlers[g].hPc \in {"dialFailed", "sendFailed"}
    \/ handlers[g].hPc = "select" /\ (handlers[g].rPc = "done" \/ handlers[g].wPc = "done")

\* read_task: reader.read(..) => Ok(n), n > 0 / socket_read.recv(..) => Ok(n)
local_read_data(g) ==
    /\ handlers[g].rPc = "read"
    /\ TotalReads < limits.reads
    /\ HandlerStep(g, [handlers[g] EXCEPT !.rPc = Locking(g, "data")])

\* a read_task that ends at Ok(0) / Err(e) without the CLOSE message
local_read_end_silent(g) ==
    /\ handlers[g].rPc = "read"
    /\ \E how \in {"eof", "err"} :
          /\ how = "eof" => handlers[g].proto = Proto_Tcp
          /\ HandlerStep(g, [handlers[g] EXCEPT !.rPc = "done"])

\* read_task: Ok(0) (TCP end of stream) or Err(e): break
local_read_end(g) ==
    /\ handlers[g].rPc = "read"
    /\ limits.faults
    /\ \E how \in {"eof", "err"} :
          /\ how = "eof" => handlers[g].proto = Proto_Tcp
          /\ HandlerStep(g, [handlers[g] EXCEPT !.rPc = Locking(g, "close")])

\* read_task: ws_sender_clone.lock().await before the DATA send
data_lock(g) ==
    /\ handlers[g].rPc = "dataLock"
    /\ LockFree(handlers[g].sess)
    /\ HandlerStep(g, [handlers[g] EXCEPT !.rPc = "dataSend"])

\* read_task: sender.send(build_data(..)).await; is_err() => break
data_send(g) ==
    /\ handlers[g].rPc = "dataSend"
    /\ HandlerStep(g,
          LET sent == Sent("Binary", build_data(handlers[g].proto, handlers[g].id, LocalBytes),
                           handlers[g].sess)
          IN  [handlers[g] EXCEPT !.rPc = IF sent.ok THEN "read" ELSE "closeLock",
                                  !.log = Append(@, sent)])

\* read_task, "Send CLOSE message": ws_sender_clone.lock().await
close_lock(g) ==
    /\ handlers[g].rPc = "closeLock"
    /\ LockFree(handlers[g].sess)
    /\ HandlerStep(g, [handlers[g] EXCEPT !.rPc = "closeSend"])

\* read_task, "Send CLOSE message": let _ = sender.send(build_close(..)).await
close_send(g) ==
    /\ handlers[g].rPc = "closeSend"
    /\ HandlerStep(g,
          [handlers[g] EXCEPT !.rPc = "done",
              !.log = Append(@, Sent("Binary",
                                     build_close(handlers[g].proto, handlers[g].id),
                                     handlers[g].sess))])

\* a channel that hands out its newest item first
write_recv_newest(g) ==
    /\ handlers[g].wPc = "recv"
    /\ handlers[g].chan # <<>>
    /\ HandlerStep(g,
          [handlers[g] EXCEPT !.wPc = "write",
                              !.item = handlers[g].chan[Len(handlers[g].chan)],
                              !.chan = SubSeq(@, 1, Len(@) - 1)])

\* write_task: data_rx.recv().await => Some(data)
write_recv(g) ==
    /\ handlers[g].wPc = "recv"
    /\ handlers[g].chan # <<>>
    /\ HandlerStep(g,
          [handlers[g] EXCEPT !.wPc = "write", !.item = Head(handlers[g].chan),
                              !.chan = Tail(@)])

\* write_task: data_rx.recv().await => None (every sender dropped, channel empty)
write_recv_none(g) ==
    /\ handlers[g].wPc = "recv"
    /\ handlers[g].chan = <<>>
    /\ ~TxAlive(g)
    /\ HandlerStep(g, [handlers[g] EXCEPT !.wPc = "done"])

\* write_task: writer.write_all(&data) and flush() / socket_write.send(&data)
local_write(g) ==
    /\ handlers[g].wPc = "write"
    /\ \E ok \in Outcomes :
          HandlerStep(g,
              IF ok THEN [handlers[g] EXCEPT !.wPc = "recv", !.item = <<>>,
                                             !.written = Append(@, handlers[g].item)]
                    ELSE [handlers[g] EXCEPT !.wPc = "done", !.item = <<>>, !.chan = <<>>])

\* ------------------------------------------------------------------ specification

Next ==
    \/ run_loop
    \/ connect_ok
    \/ run_ok
    \/ run_sleep
    \/ transport_fail
    \/ recv_skipped
    \/ recv_connect
    \/ recv_data
    \/ data_send_resume
    \/ recv_close
    \/ recv_ping
    \/ ping_lock
    \/ ping_send
    \/ recv_ignored
    \/ recv_ws_ping
    \/ ws_pong_lock
    \/ ws_pong_send
    \/ recv_end
    \/ session_cleanup
    \/ \E g \in Gens : tcp_dial(g)
    \/ \E g \in Gens : tcp_error_lock(g)
    \/ \E g \in Gens : tcp_error_send(g)
    \/ \E g \in Gens : udp_setup(g)
    \/ \E g \in Gens : connected_lock(g)
    \/ \E g \in Gens : connected_send(g)
    \/ \E g \in Gens : local_read_data(g)
    \/ \E g \in Gens : local_read_end(g)
    \/ \E g \in Gens : data_lock(g)
    \/ \E g \in Gens : data_send(g)
    \/ \E g \in Gens : close_lock(g)
    \/ \E g \in Gens : close_send(g)
    \/ \E g \in Gens : write_recv(g)
    \/ \E g \in Gens : write_recv_none(g)
    \/ \E g \in Gens : local_write(g)

Spec == Init /\ [][Next]_vars

\* ------------------------------------------------------------------ scheduling

\* the runs of Spec and a run with several connections taking inbound data
\* from healthy peers
ScenariosLive ==
    Scenarios \cup { [handlers |-> MaxHandlers, data |-> MaxData, reads |-> 0,
                      sessions |-> 1, protos |-> {Proto_Tcp}, faults |-> FALSE] }

InitLive ==
    /\ limits \in ScenariosLive
    /\ max_reconnect_attempts = 0
    /\ Start

\* the steps the session task takes by itself (everything but waiting for the
\* transport to connect or to deliver a frame; a failed transport delivers
\* its error at once)
SessionTask ==
    \/ run_loop
    \/ run_ok
    \/ run_sleep
    \/ data_send_resume
    \/ ping_lock
    \/ ping_send
    \/ ws_pong_lock
    \/ ws_pong_send
    \/ ~sessLive /\ recv_end
    \/ session_cleanup

\* the steps of handler g before it spawns its tasks
HandlerTask(g) ==
    /\ g \in Gens
    /\ \/ tcp_dial(g)
       \/ tcp_error_lock(g)
       \/ tcp_error_send(g)
       \/ udp_setup(g)
       \/ connected_lock(g)
       \/ connected_send(g)

\* the steps of the read task of g that do not wait for the local service
ReadTask(g) ==
    /\ g \in Gens
    /\ \/ data_lock(g)
       \/ data_send(g)
       \/ close_lock(g)
       \/ close_send(g)

\* the steps of the write task of g that do not wait for the local service
WriteTask(g) ==
    /\ g \in Gens
    /\ \/ write_recv(g)
       \/ write_recv_none(g)

\* the local service takes the bytes written to it
LocalWrite(g) == g \in Gens /\ local_write(g)

\* the tokio runtime polls every task that can make progress, and the tokio
\* Mutex hands the sink to its waiters in turn
FairTasks ==
    /\ SF_vars(SessionTask)
    /\ \A g \in 1..MaxHandlers : SF_vars(HandlerTask(g))
    /\ \A g \in 1..MaxHandlers : SF_vars(ReadTask(g))
    /\ \A g \in 1..MaxHandlers : WF_vars(WriteTask(g))

FairWrites == \A g \in 1..MaxHandlers : WF_vars(LocalWrite(g))

\* every local service keeps taking what is written to it
SpecLive == InitLive /\ [][Next]_vars /\ FairTasks /\ FairWrites

\* a local service may stop taking what is written to it
SpecStall == InitLive /\ [][Next]_vars /\ FairTasks

\* ------------------------------------------------------------------ reconnect loop

\* runs without logical connections, under every configured cap, where the
\* transport may also fail to connect
ScenarioRun ==
    [handlers |-> 0, data |-> 0, reads |-> 0, sessions |-> MaxSessions,
     protos |-> {}, faults |-> TRUE]

InitRun ==
    /\ limits = ScenarioRun
    /\ max_reconnect_attempts \in MaxReconnectChoices
    /\ Start

NextRun ==
    \/ run_loop
    \/ connect_fail
    \/ connect_ok
    \/ run_ok
    \/ run_sleep
    \/ transport_fail
    \/ recv_skipped
    \/ recv_ignored
    \/ recv_ping
    \/ ping_send
    \/ recv_end
    \/ session_cleanup

SpecRun == InitRun /\ [][NextRun]_vars

\* ------------------------------------------------------------------ the codec on its own
\* protocol.rs is a set of pure functions.  This specification applies them to
\* inputs drawn from bounded sets: either the arguments of build_message
\* (out holds them, as the tests hold `original`), or the bytes of a received
\* frame (cur).  The connection state is not involved and stays as constructed.

\* longest payload / longest run of bytes after the header
MaxPayload == 2

U8Samples == {0, 7, 255}
\* client ids: every byte of the u32 is exercised; the model checker's integers
\* end at 2^31 - 1, so the samples stop there
U32Samples == {0, 1, 258, 12345, 16909060, 2147483647}
U16Samples == {0, 8080, 65535}
MsgTypes == {MsgType_Connect, MsgType_Connected, MsgType_Data, MsgType_Close,
             MsgType_Error, MsgType_Ping, MsgType_Pong}
Protos == {Proto_Tcp, Proto_Udp}

RECURSIVE SeqsUpTo(_, _)
SeqsUpTo(S, n) ==
    IF n = 0 THEN {<<>>}
    ELSE LET shorter == SeqsUpTo(S, n - 1)
         IN  shorter \cup {Append(q, x) : q \in shorter, x \in S}

Payloads == SeqsUpTo(U8Samples, MaxPayload)

\* the arguments of build_message
BuildArgs ==
    {[header |-> [msg_type |-> mt, proto |-> pr, client_id |-> id, port |-> po],
      payload |-> pl] :
        mt \in MsgTypes, pr \in Protos, id \in U32Samples, po \in U16Samples,
        pl \in Payloads}

\* byte strings handed to Header::parse: every prefix of a frame whose type
\* and family bytes are arbitrary samples, followed by arbitrary bytes
TypeBytes == {0, 1, 3, 7, 8, 255}
FamilyBytes == {0, 1, 2, 255}
IdPortBytes == {<<0, 0, 0, 1, 0, 0>>, <<1, 2, 3, 4, 31, 144>>, <<127, 255, 255, 255, 255, 255>>}
WholeFrames == {<<t, f>> \o ip \o pl :
                    t \in TypeBytes, f \in FamilyBytes, ip \in IdPortBytes, pl \in Payloads}
RawFrames == UNION {{SubSeq(w, 1, n) : n \in 0..Len(w)} : w \in WholeFrames}

InitCodec ==
    /\ limits = ScenarioRun
    /\ max_reconnect_attempts = 0
    /\ attempt = 0
    /\ errs = 0
    /\ endedBy = "none"
    /\ session = 0
    /\ sessLive = FALSE
    /\ connections = {}
    /\ handlers = <<>>
    /\ \/ /\ runPc = "args"
          /\ cur = <<>>
          /\ \E a \in BuildArgs : out = <<a>>
       \/ /\ runPc = "bytes"
          /\ cur \in RawFrames
          /\ out = <<>>

\* build_message(msg_type, proto, client_id, port, payload)
codec_build ==
    /\ runPc = "args"
    /\ cur' = build_message(out[1].header.msg_type, out[1].header.proto,
                            out[1].header.client_id, out[1].header.port, out[1].payload)
    /\ runPc' = "bytes"
    /\ UNCHANGED <<limits, max_reconnect_attempts, attempt, errs, endedBy, session, sessLive,
                   connections, handlers, out>>

\* Header::parse(&data) and get_payload(&data)
codec_parse ==
    /\ runPc = "bytes"
    /\ out' = Append(out, [result |-> Header_parse(cur), payload |-> get_payload(cur)])
    /\ runPc' = "parsed"
    /\ UNCHANGED <<limits, max_reconnect_attempts, attempt, errs, endedBy, session, sessLive,
                   cur, connections, handlers>>

NextCodec ==
    \/ codec_build
    \/ codec_parse

SpecCodec == InitCodec /\ [][NextCodec]_vars

\* ------------------------------------------------------------------ properties

\* at most one table entry per client id
TableFunctional == \A e1, e2 \in connections : e1.id = e2.id => e1 = e2

\* C1: a CONNECT for an id already in the table leaves the table and the set of
\* handlers unchanged; a CONNECT for an absent id spawns exactly one handler, for
\* that id, and enters it in the table; no other step spawns a handler; the
\* table never holds two entries for one id.
C1_DuplicateConnectIgnored ==
    /\ []TableFunctional
    /\ [][ /\ \A data \in RunnerFrames :
                dispatch_connect(data) =>
                    LET id == HeaderOf(data).client_id
                    IN  IF id \in Keys
                        THEN UNCHANGED <<connections, handlers>>
                        ELSE /\ Len(handlers') = Len(handlers) + 1
                             /\ SubSeq(handlers', 1, Len(handlers)) = handlers
                             /\ handlers'[Len(handlers')].id = id
                             /\ connections' =
                                    connections \cup {[id |-> id, gen |-> Len(handlers')]}
           /\ Len(handlers') # Len(handlers) =>
                \E data \in RunnerFrames :
                    /\ dispatch_connect(data)
                    /\ HeaderOf(data).client_id \notin Keys
         ]_vars

\* an id was connected, closed and connected again: two handlers, one entry
C1_Witness ==
    /\ Len(handlers) = 2
    /\ handlers[1].id = handlers[2].id
    /\ connections = {[id |-> handlers[2].id, gen |-> 2]}

\* C2: a DATA for an id that is not in the table changes neither the table nor
\* any handler (nothing queued, nothing written), sends nothing, and the read
\* loop goes on to the next frame; a CLOSE removes its id from the table, and
\* only a CONNECT for an id puts it back.
C2_UnknownDataDropped ==
    [][ /\ \A data \in RunnerFrames :
             /\ (dispatch_data(data) /\ HeaderOf(data).client_id \notin Keys) =>
                    /\ UNCHANGED <<connections, handlers>>
                    /\ out' = <<>>
                    /\ runPc' = "recv"
             /\ dispatch_close(data) => HeaderOf(data).client_id \notin Keys'
        /\ \A id \in Ids :
             (id \notin Keys /\ id \in Keys') =>
                \E data \in RunnerFrames :
                    dispatch_connect(data) /\ HeaderOf(data).client_id = id
      ]_vars

\* a connection that took DATA was closed by the runner while its write task is
\* still waiting on the channel, and the read loop is ready for the next frame
C2_Witness ==
    /\ runPc = "recv"
    /\ sessLive
    /\ \E g \in Gens :
          /\ handlers[g].id \notin Keys
          /\ handlers[g].nIn >= 1
          /\ handlers[g].wPc = "recv"

\* C3: a TCP handler whose dial failed has handed exactly one frame to the sink:
\* an ERROR with the CONNECT's id, protocol TCP and a non-empty payload; it has
\* sent nothing before it and started neither task, so no CONNECTED, DATA or
\* CLOSE follows.
C3_DialFailureSendsOneError ==
    \A g \in Gens :
        handlers[g].proto = Proto_Tcp =>
            /\ handlers[g].hPc \in {"dial", "errLock", "errSend"} => handlers[g].log = <<>>
            /\ handlers[g].hPc = "dialFailed" =>
                  /\ Len(handlers[g].log) = 1
                  /\ Header_parse(handlers[g].log[1].data).ok
                  /\ HeaderOf(handlers[g].log[1].data).msg_type = MsgType_Error
                  /\ HeaderOf(handlers[g].log[1].data).proto = Proto_Tcp
                  /\ HeaderOf(handlers[g].log[1].data).client_id = handlers[g].id
                  /\ get_payload(handlers[g].log[1].data) # <<>>
                  /\ handlers[g].rPc = "none"
                  /\ handlers[g].wPc = "none"

\* a TCP dial failed and its ERROR went out on the live transport
C3_Witness ==
    \E g \in Gens :
        /\ handlers[g].proto = Proto_Tcp
        /\ handlers[g].hPc = "dialFailed"
        /\ handlers[g].log # <<>>
        /\ handlers[g].log[1].ok

\* C4: once a handler has ended on a dial failure, the table holds no entry for
\* it.
C4_NoEntryAfterDialFailure ==
    \A g \in Gens : handlers[g].hPc = "dialFailed" => ~TxAlive(g)

\* every frame of the log was accepted by the sink
AllAccepted(log) == \A i \in 1..Len(log) : log[i].ok

\* C5: once the read task of a connection has seen the local service close and
\* its CLOSE went out, the id of that connection is no longer in the table.
C5_NoEntryAfterLocalClose ==
    \A g \in Gens :
        (handlers[g].rPc = "done" /\ AllAccepted(handlers[g].log)) => ~TxAlive(g)

\* C6: a TCP read task that has ended handed exactly one CLOSE to the sink, for
\* its own id and protocol TCP, as its last frame; a read task that has not
\* ended handed none; so no DATA of the connection follows its CLOSE.
C6_OneCloseThenSilence ==
    \A g \in Gens :
        handlers[g].proto = Proto_Tcp =>
            LET log == handlers[g].log
            IN  /\ handlers[g].rPc = "done" =>
                      /\ TypeCount(log, MsgType_Close) = 1
                      /\ log[Len(log)].data = build_close(Proto_Tcp, handlers[g].id)
                      /\ HeaderOf(log[Len(log)].data).msg_type = MsgType_Close
                      /\ HeaderOf(log[Len(log)].data).client_id = handlers[g].id
                /\ handlers[g].rPc # "done" => TypeCount(log, MsgType_Close) = 0

\* a TCP read task forwarded local bytes, then saw the local end and sent CLOSE
C6_Witness ==
    \E g \in Gens :
        /\ handlers[g].proto = Proto_Tcp
        /\ handlers[g].rPc = "done"
        /\ DataCount(handlers[g].log) >= 1
        /\ AllAccepted(handlers[g].log)

\* the session task is answering a PING
Ponging == runPc \in {"pongLock", "pongSend"}

\* C7: a PING makes the session task send exactly one frame before it reads the
\* next one: a PONG carrying the PING's id, whether or not that id is in the
\* table; the table and the handlers are left as they are; and no PONG is sent
\* on any other occasion.
C7_PingAnsweredOnce ==
    [][ /\ (runPc = "recv" /\ Ponging') =>
              /\ IsMsg(cur', MsgType_Ping)
              /\ out' = <<>>
              /\ UNCHANGED <<connections, handlers>>
        /\ Ponging =>
              \/ Ponging' /\ out' = <<>> /\ cur' = cur
              \/ /\ runPc = "pongSend"
                 /\ runPc' = "recv"
                 /\ Len(out') = 1
                 /\ out'[1].kind = "Binary"
                 /\ Header_parse(out'[1].data).ok
                 /\ HeaderOf(out'[1].data).msg_type = MsgType_Pong
                 /\ HeaderOf(out'[1].data).client_id = HeaderOf(cur).client_id
                 /\ UNCHANGED <<connections>>
                 /\ \A g \in Gens : handlers'[g].log = handlers[g].log
        /\ (out' # <<>> /\ out' # out /\ IsMsg(out'[1].data, MsgType_Pong)) =>
              runPc = "pongSend"
      ]_vars

\* the PONG for an id that is not in the table, while another id is
C7_Witness ==
    /\ out # <<>>
    /\ IsMsg(out[1].data, MsgType_Pong)
    /\ out[1].ok
    /\ HeaderOf(out[1].data).client_id \notin Keys
    /\ connections # {}

\* C8: when connect_and_run has returned, the table is empty and no sender of
\* any handler is left.
C8_ShutdownBeforeReturn ==
    runPc = "returned" => (connections = {} /\ \A g \in Gens : ~TxAlive(g))

\* connect_and_run returned while a connection of that session was established
C8_Witness ==
    /\ runPc = "returned"
    /\ \E g \in Gens :
          /\ handlers[g].sess = session
          /\ handlers[g].hPc = "select"
          /\ handlers[g].wPc \in {"recv", "write"}

\* the write side of the connection of id b is alive
WriteSideAlive(b) ==
    /\ b \in Keys
    /\ handlers[GenOf(b)].wPc \in {"recv", "write"}

\* the read loop is suspended in handle_data on the full channel of another id
SuspendedOnOther(b) ==
    /\ runPc = "dataSend"
    /\ sessLive
    /\ HeaderOf(cur).client_id # b

\* C9: whenever the read loop is suspended on the full channel of one id while
\* the connection of another id b is established, the read loop gets back to
\* the transport, so that the DATA for b arriving meanwhile is dispatched to
\* the write side of b; this also when the local write side of the first id
\* makes no progress.
C9_OtherIdsStillServed ==
    \A b \in Ids :
        (SuspendedOnOther(b) /\ WriteSideAlive(b)) ~> (runPc # "dataSend")

\* the connection of handler g was torn down (its table entry is gone) or its
\* local service failed (the handler has returned)
TornDown(g) == g \in Gens /\ (~TxAlive(g) \/ HandlerReturned(g))

\* the handler of g and both of its tasks have ended, and with them the halves
\* of the local socket they own
Released(g) ==
    /\ g \in Gens
    /\ HandlerReturned(g)
    /\ handlers[g].rPc \in {"none", "done"}
    /\ handlers[g].wPc \in {"none", "done"}

\* C10: once a connection is torn down or its local service has failed, the
\* handler, the read task and the write task of that connection all end,
\* whatever the local service does from then on.
C10_TasksEndAfterTeardown ==
    \A g \in 1..MaxHandlers : TornDown(g) ~> Released(g)

\* the payloads of the first n DATA frames the manager accepted for a connection
Arrived(n) == [i \in 1..n |-> <<i>>]

\* what the write task of g holds between recv() and the end of the write
InWrite(g) == IF handlers[g].wPc = "write" THEN <<handlers[g].item>> ELSE <<>>

\* C11: for every connection, the payloads written to its local socket are the
\* first payloads accepted for it, in their order of arrival, each once; while
\* the receiving end of its channel is alive, the payloads written, the one
\* being written and the ones queued are together all the payloads accepted,
\* in that order.
C11_WritesInArrivalOrder ==
    \A g \in Gens :
        /\ Len(handlers[g].written) <= handlers[g].nIn
        /\ handlers[g].written = Arrived(Len(handlers[g].written))
        /\ RxAlive(g) =>
              handlers[g].written \o InWrite(g) \o handlers[g].chan
                  = Arrived(handlers[g].nIn)

\* two payloads are written and two more are queued behind them
C11_Witness ==
    \E g \in Gens :
        /\ Len(handlers[g].written) = 2
        /\ Len(handlers[g].chan) = 2

\* C12: while the transport has never connected, under a cap N > 0 run() makes
\* no more than N attempts, does not panic, and has made exactly N failed
\* attempts when it returns its failure; with the cap 0 it never returns.
C12_ExactlyNAttempts ==
    session = 0 =>
        /\ max_reconnect_attempts > 0 =>
              /\ errs <= max_reconnect_attempts
              /\ runPc # "panicked"
              /\ runPc = "exited" => errs = max_reconnect_attempts
        /\ max_reconnect_attempts = 0 => runPc # "exited"

\* C13: run() returns its failure only under a cap N > 0 and only when the N
\* latest attempts each ended in an error with no Ok(()) among them; after a
\* session that ended with a normal close the counter is zero before the next
\* attempt is counted.
C13_CapOnlyAfterNErrors ==
    /\ runPc = "exited" =>
          /\ max_reconnect_attempts > 0
          /\ errs = max_reconnect_attempts
          /\ endedBy = "connect"
    /\ (runPc \in {"sleep", "top"} /\ endedBy = "close") => attempt = 0

\* run() gave up after a session had run and, after it, as many attempts
\* failed in a row as the cap allows
C13_Witness ==
    /\ runPc = "exited"
    /\ session >= 1
    /\ max_reconnect_attempts >= 2

\* C14: after a session whose read loop ended on a transport error, the
\* attempt counter still counts that attempt when run() waits for the next one.
C14_FailedSessionCounts ==
    (runPc = "sleep" /\ endedBy = "error") => attempt >= 1

\* tasks waiting in ws_sender.lock().await for the sink of session s
LockWaiters(s) ==
    {g \in Gens : /\ handlers[g].sess = s
                  /\ \/ handlers[g].hPc \in {"errLock", "connLock"}
                     \/ handlers[g].rPc \in {"dataLock", "closeLock"}}
        \cup (IF s = session /\ runPc \in {"pongLock", "wsPongLock"} THEN {0} ELSE {})

\* C15: for the sink of every session, at most one task is between acquiring
\* the lock and the end of its send (of CONNECTED, DATA, CLOSE, ERROR, PONG or
\* a transport pong), so no two frames are being written at the same time.
C15_SinkHeldByOneTask ==
    \A s \in 1..session : Cardinality(LockHolders(s)) <= 1

\* one task is sending while another waits for the sink
C15_Witness ==
    \E s \in 1..session :
        /\ Cardinality(LockHolders(s)) = 1
        /\ LockWaiters(s) # {}

\* the frame is shorter than a header, or its type or family byte is unknown
Undecodable(data) ==
    \/ Len(data) < 8
    \/ data[1] \notin 1..7
    \/ data[2] \notin {0, 1}

\* C16: a binary frame that cannot be decoded is never dispatched as a CONNECT,
\* DATA, CLOSE or PING; the step that takes it changes neither the table nor
\* any handler, sends nothing, and leaves the read loop on a live transport
\* ready for the next frame.
C16_UndecodableFrameSkipped ==
    [][ \A data \in RunnerFrames :
            Undecodable(data) =>
                /\ ~dispatch_connect(data)
                /\ ~dispatch_data(data)
                /\ ~dispatch_close(data)
                /\ ~dispatch_ping(data)
                /\ dispatch_skipped(data) =>
                      /\ UNCHANGED <<connections, handlers>>
                      /\ out' = <<>>
                      /\ runPc' = "recv"
                      /\ sessLive'
      ]_vars

\* the read loop is ready for a frame while a connection holds queued data and
\* the runner may send each kind of undecodable frame
C16_Witness ==
    /\ runPc = "recv"
    /\ sessLive
    /\ \E g \in Gens : TxAlive(g) /\ handlers[g].chan # <<>>
    /\ \A data \in Malformed : data \in RunnerFrames /\ Undecodable(data)

\* C17: the bytes build_message produces parse back to the same message
\* type, family, connection id and port, get_payload of them is the payload,
\* and their length is the header size plus the payload length.
C17_RoundTrip ==
    (runPc = "parsed" /\ Len(out) = 2) =>
        /\ out[2].result.ok
        /\ out[2].result.header = out[1].header
        /\ out[2].payload = out[1].payload
        /\ Len(cur) = HEADER_SIZE + Len(out[1].payload)

C17_Witness ==
    /\ runPc = "parsed" /\ Len(out) = 2
    /\ out[1].header.client_id = 16909060
    /\ out[1].header.port = 8080
    /\ out[1].header.msg_type = MsgType_Error
    /\ out[1].header.proto = Proto_Udp
    /\ Len(out[1].payload) = MaxPayload

\* C18: Header::parse returns a header exactly when the input has at least
\* HEADER_SIZE bytes, byte 0 is one of 0x01..0x07 and byte 1 is 0x00 or 0x01;
\* a shorter input gives the too-short error, a bad type or family byte the
\* matching error, and the result is that of the first HEADER_SIZE bytes alone.
C18_ParseExactly ==
    runPc = "parsed" =>
        LET r == out[Len(out)].result
            long == Len(cur) >= HEADER_SIZE
        IN  /\ r.ok <=> (long /\ cur[1] \in 1..7 /\ cur[2] \in {0, 1})
            /\ ~long => r.err = "MessageTooShort"
            /\ (long /\ cur[1] \notin 1..7) => r.err = "InvalidMsgType"
            /\ (long /\ cur[1] \in 1..7 /\ cur[2] \notin {0, 1}) => r.err = "InvalidProto"
            /\ ~r.ok => r.header = NoHeader
            /\ long => r = Header_parse(SubSeq(cur, 1, HEADER_SIZE))
            /\ r.ok => r.header = [msg_type |-> cur[1], proto |-> cur[2],
                                   client_id |-> ((cur[3] * 256 + cur[4]) * 256 + cur[5]) * 256 + cur[6],
                                   port |-> cur[7] * 256 + cur[8]]

C18_Witness ==
    /\ runPc = "parsed" /\ Len(out) = 1
    /\ Len(cur) = HEADER_SIZE + MaxPayload
    /\ cur[1] = 8 /\ cur[2] = 2
    /\ out[1].result.err = "InvalidMsgType"

\* one of the two loops of handler g has ended, so the select! of the handler
\* task has completed
LoopEnded(g) ==
    handlers[g].hPc = "select" /\ (handlers[g].rPc = "done" \/ handlers[g].wPc = "done")

\* C19: once either loop of a connection has ended, the other takes no
\* further step: nothing more is written to the local socket and nothing more
\* (DATA or CLOSE) is handed to the sink for that connection.
C19_OtherLoopAbandoned ==
    [][\A g \in Gens :
          LoopEnded(g) =>
              /\ handlers'[g].written = handlers[g].written
              /\ \/ handlers'[g].log = handlers[g].log
                 \/ ~handlers'[g].log[Len(handlers'[g].log)].ok]_vars

\* the outer transport of the current session has closed or failed while the
\* session task is still inside the message loop
TransportLost == InSession /\ ~sessLive

\* the session is over: shutdown() has emptied the table and run() is in the
\* delay before its next attempt
SessionOver == runPc = "sleep" /\ connections = {}

\* C20: whenever the outer transport closes or fails during an established
\* session, the session ends: the read loop exits, shutdown() tears down all
\* connections and run() waits out the delay before its next attempt; this
\* also when the inbound channel of a connection is full and its local
\* service takes nothing.
C20_SessionEndsAfterTransportLoss == TransportLost ~> SessionOver

\* the handler of g is past its setup: it has failed, or it has handed its
\* CONNECTED to the sink
SetupOver(g) == handlers[g].hPc \in {"dialFailed", "sendFailed", "select"}

\* C21: a UDP handler whose bind or connect failed has handed exactly one
\* frame to the sink, an ERROR with family UDP and the CONNECT's id, and no
\* CONNECTED; so every handler, TCP or UDP, that is past its setup has
\* answered its CONNECT with exactly one of CONNECTED or ERROR.
C21_UdpSetupFailureSendsOneError ==
    \A g \in Gens :
        /\ (handlers[g].proto = Proto_Udp /\ handlers[g].hPc = "dialFailed") =>
              /\ Len(handlers[g].log) = 1
              /\ HeaderOf(handlers[g].log[1].data).msg_type = MsgType_Error
              /\ HeaderOf(handlers[g].log[1].data).proto = Proto_Udp
              /\ HeaderOf(handlers[g].log[1].data).client_id = handlers[g].id
        /\ SetupOver(g) =>
              TypeCount(handlers[g].log, MsgType_Connected)
                  + TypeCount(handlers[g].log, MsgType_Error) = 1

\* the message type of the i-th frame a handler handed to the sink
LogType(g, i) == HeaderOf(handlers[g].log[i].data).msg_type

\* C22: CONNECTED is the first message of a handler that succeeds: a DATA or
\* CLOSE in a handler's log is preceded by that handler's CONNECTED, taken by
\* the sink, at the head of the log; no handler sends a second CONNECTED; and
\* a handler whose CONNECTED send failed starts neither task and sends nothing
\* else.
C22_ConnectedFirst ==
    \A g \in Gens :
        /\ TypeCount(handlers[g].log, MsgType_Connected) <= 1
        /\ \A i \in 1..Len(handlers[g].log) :
              LogType(g, i) \in {MsgType_Data, MsgType_Close} =>
                  /\ i > 1
                  /\ LogType(g, 1) = MsgType_Connected
                  /\ handlers[g].log[1].ok
        /\ handlers[g].hPc = "sendFailed" =>
              /\ Len(handlers[g].log) = 1
              /\ LogType(g, 1) = MsgType_Connected
              /\ ~handlers[g].log[1].ok
              /\ handlers[g].rPc = "none"
              /\ handlers[g].wPc = "none"

\* a handler went through CONNECTED, DATA and CLOSE, all taken by the sink
C22_Witness ==
    \E g \in Gens :
        /\ Len(handlers[g].log) >= 3
        /\ LogType(g, 2) = MsgType_Data
        /\ LogType(g, Len(handlers[g].log)) = MsgType_Close
        /\ AllAccepted(handlers[g].log)

\* a handler's CONNECTED send failed on a transport that was lost meanwhile
SendFailedSeen == \E g \in Gens : handlers[g].hPc = "sendFailed"

\* the handler of g has not yet sent its CONNECTED or ERROR
InSetup(g) == handlers[g].hPc \in {"dial", "errLock", "errSend", "connLock", "connSend"}

\* C23: DATA accepted for a connection before its handler has finished the
\* dial and sent CONNECTED is queued in the connection's channel, whole and in
\* arrival order, never more than the channel's capacity, and none of it is
\* written meanwhile; whatever is written later is written after the
\* CONNECTED went out and in arrival order, the queued payloads first, with
\* nothing missing as long as the write task lives; after a failed dial
\* nothing has been written.
C23_EarlyDataQueued ==
    \A g \in Gens :
        /\ Len(handlers[g].chan) <= ChanCap
        /\ InSetup(g) =>
              /\ handlers[g].chan = Arrived(handlers[g].nIn)
              /\ handlers[g].written = <<>>
              /\ handlers[g].wPc = "none"
        /\ (handlers[g].written # <<>> \/ handlers[g].wPc = "write") =>
              /\ LogType(g, 1) = MsgType_Connected
              /\ handlers[g].log[1].ok
              /\ handlers[g].written = Arrived(Len(handlers[g].written))
              /\ RxAlive(g) =>
                    handlers[g].written \o InWrite(g) \o handlers[g].chan
                        = Arrived(handlers[g].nIn)
        /\ handlers[g].hPc \in {"dialFailed", "sendFailed"} =>
              /\ handlers[g].written = <<>>
              /\ handlers[g].chan = <<>>

\* the dial succeeded with a full channel of DATA queued before CONNECTED
C23_Witness ==
    \E g \in Gens :
        /\ handlers[g].hPc = "connSend"
        /\ Len(handlers[g].chan) = ChanCap

\* payloads that arrived during the dial were written after CONNECTED while the
\* id was already closed by the runner
EarlyDataWritten ==
    \E g \in Gens :
        /\ ~TxAlive(g)
        /\ handlers[g].hPc = "select"
        /\ Len(handlers[g].written) = ChanCap

\* handler g2 was created by a later CONNECT for the id of handler g1, in the
\* same session (the runner's CLOSE removed the entry of g1 in between)
Reused(g1, g2) ==
    /\ g1 < g2
    /\ handlers[g1].id = handlers[g2].id
    /\ handlers[g1].sess = handlers[g2].sess

\* C24: once an id has been closed and connected again, the handler of the
\* first CONNECT puts no further DATA or CLOSE for that id on the sink: all of
\* them come from the handler of the second CONNECT.
C24_OnlyNewestHandlerEmits ==
    [][\A g1, g2 \in Gens :
          Reused(g1, g2) =>
              \/ handlers'[g1].log = handlers[g1].log
              \/ ~handlers'[g1].log[Len(handlers'[g1].log)].ok
              \/ HeaderOf(handlers'[g1].log[Len(handlers'[g1].log)].data).msg_type
                     \notin {MsgType_Data, MsgType_Close}]_vars

\* C25: the table of a session holds only connections created in that
\* session, so it is empty when the session starts and an id of an earlier
\* session is unknown; and every frame of a handler goes to the sink of the
\* session that created the handler, never to the sink of a later session.
C25_SessionsIsolated ==
    /\ \A e \in connections :
          /\ e.gen \in Gens
          /\ handlers[e.gen].sess = session
          /\ handlers[e.gen].id = e.id
    /\ (runPc = "recv" /\ \A g \in Gens : handlers[g].sess < session) => connections = {}
    /\ \A g \in Gens :
          /\ handlers[g].sess <= session
          /\ \A i \in 1..Len(handlers[g].log) :
                handlers[g].log[i].sess = handlers[g].sess

\* a handler of an earlier session outlived it: in the next session, on a live
\* transport, its id is unknown and the DATA it sent last went to its own,
\* dead sink
C25_Witness ==
    \E g \in Gens :
        /\ handlers[g].sess < session
        /\ sessLive
        /\ runPc = "recv"
        /\ handlers[g].id \notin Keys
        /\ handlers[g].log # <<>>
        /\ LogType(g, Len(handlers[g].log)) = MsgType_Data
        /\ ~handlers[g].log[Len(handlers[g].log)].ok

====
